---- MODULE Spec2Model ----
(***************************************************************************)
(* A model of the case-study notebooks of the repository.                  *)
(*                                                                         *)
(* One run executes one notebook (the Tutorials workflow runs each         *)
(* notebook of its matrix in a job of its own); the cells of a notebook    *)
(* run top to bottom.  The state holds the notebook's variables that the   *)
(* properties below read.                                                  *)
(*                                                                         *)
(* Angles.  The notebooks work in radians.  Here a radian value is an      *)
(* integer count of eighths of a turn: Pi (the model of np.pi) is 4 of     *)
(* them, so the angles of the model are the multiples of 45 degrees.       *)
(* Position angles of the data table are whole degrees; `x * deg' of the   *)
(* source is Deg(x).  Sines and cosines are fixed point, scaled by 1000.   *)
(*                                                                         *)
(* The orbit evaluation itself (xo.orbits.KeplerianOrbit and its           *)
(* get_relative_angles) is library code the notebooks call; its result is  *)
(* an input of the model, drawn from the range the notebook documents.     *)
(***************************************************************************)
EXTENDS Integers, Sequences, FiniteSets

VARIABLES
    nb,           \* the notebook this run executes
    pc,           \* the next cell of the notebook
    PA,           \* astro_data["PA"]: observed position angles, degrees
    theta_data,   \* observed position angles, radians
    theta_model,  \* orbit.get_relative_angles(astro_jds, plx)[1]
    theta_diff,   \* the mean handed to pm.Normal("theta_obs", ...)
    orbits,       \* the KeplerianOrbit constructor calls made so far
    rho_circ,     \* quick-tess: the densities implied by the circular fit
    ecc,          \* quick-tess: the eccentricities drawn from the prior
    omega,        \* the argument of periastron (quick-tess: the drawn array)
    rho,          \* quick-tess: the true densities, as their squares
    astro_data_full, \* the rows of the table as read, error columns masked
    astro_err,    \* astro_data["rho_err"], astro_data["PA_err"]
    rho_err,      \* the separation uncertainties, milliarcseconds
    theta_err,    \* the position-angle uncertainties, radians (tenths of a degree)
    parallax,     \* the argument of the last get_model call; <<>> is None
    plx,          \* the parallax of the last get_model call, milliarcseconds
    Omega,        \* astrometric: the position angle of the ascending node
    m_plx,        \* get_model: the parallax node, milliarcseconds (0: none)
    a_plx,        \* get_model: the parallax that divides a_ang
    angles_plx,   \* get_model: the parallax of each get_relative_angles call
    deterministics, \* get_model: the names registered with pm.Deterministic
    map_soln,     \* the optimisation stages map_soln went through
    plx_map_soln, \* astrometric: the same for plx_map_soln
    start,        \* the start= argument of the last pmx.sample call
    aat,          \* rv-multi: the AAT table
    harps,        \* rv-multi: the HARPS table
    t,            \* rv-multi: the times of the combined data
    rv,           \* rv-multi: the radial velocities
    rv_err,       \* rv-multi: their uncertainties
    inst_id,      \* rv-multi: the instrument of each point
    means,        \* rv-multi: the offset of each instrument
    sigmas,       \* rv-multi: the jitter of each instrument
    mean,         \* rv-multi: the offset of each point
    diag,         \* rv-multi: the variance of each point
    lc,           \* quick-tess: the light curve as downloaded
    x,            \* quick-tess: the times of the light curve, eighths of a day
    y,            \* quick-tess: the relative flux
    yerr,         \* quick-tess: its uncertainty
    period_guess, \* quick-tess: the period of the box-least-squares peak
    t0_guess,     \* quick-tess: its transit time
    transit_mask, \* quick-tess: the mask of the samples near a transit
    x_fold,       \* quick-tess: the times since the nearest transit
    tic_rho_star, \* quick-tess: the catalogue density and its uncertainty
    log_weights,  \* quick-tess: the log-weights of the samples
    weights,      \* quick-tess: their weights, thousandths
    github,       \* workflow: the event and the ref of the run
    notebooks,    \* workflow: the conclusion of each job of the matrix
    combine,      \* workflow: the state of the job that builds the docs
    steps         \* workflow: the conclusions of the steps of that job

vars == <<nb, pc, PA, theta_data, theta_model, theta_diff, orbits,
          rho_circ, ecc, omega, rho,
          astro_data_full, astro_err, rho_err, theta_err, parallax, plx,
          Omega, m_plx, a_plx, angles_plx, deterministics,
          map_soln, plx_map_soln, start,
          aat, harps, t, rv, rv_err, inst_id, means, sigmas, mean, diag,
          lc, x, y, yerr, period_guess, t0_guess, transit_mask, x_fold,
          tic_rho_star, log_weights, weights,
          github, notebooks, combine, steps>>

\* the uncertainties of the astrometric data
errVars == <<astro_data_full, astro_err, rho_err, theta_err>>

\* the parallax of get_model
plxVars == <<parallax, plx>>

\* the variables of the quick-tess re-weighting cell
tessVars == <<rho_circ, ecc, rho>>

\* the nodes of get_model
nodeVars == <<Omega, m_plx, a_plx, angles_plx, deterministics>>

\* the optimisation and the start of the sampling
mapVars == <<map_soln, plx_map_soln, start>>

\* the radial-velocity data and the per-instrument model
rvVars == <<aat, harps, t, rv, rv_err, inst_id, means, sigmas, mean, diag>>

\* the light curve
lcVars == <<lc, x, y, yerr, period_guess, t0_guess, transit_mask, x_fold>>

\* the weights of the re-weighting cell
wVars == <<tic_rho_star, log_weights, weights>>

\* the run of the Tutorials workflow
wfVars == <<github, notebooks, combine, steps>>

-----------------------------------------------------------------------------
(* Bounds of the model *)

\* the largest number of astrometric epochs
MaxObs == 2

\* the largest number of posterior samples of the re-weighting
MaxSamples == 2

\* the largest number of rows of a radial-velocity table
MaxRv == 2

\* the largest number of samples of the light curve
MaxLc == 2

-----------------------------------------------------------------------------
(* Numbers *)

\* np.pi, in eighths of a turn
Pi == 4

Abs(v) == IF v < 0 THEN -v ELSE v

\* `deg = np.pi / 180.0' applied to a value in degrees: x * deg
Deg(v) == (v * Pi) \div 180

\* sin of the angles 0, 45, ..., 315 degrees, scaled by 1000
SinTable == <<0, 707, 1000, 707, 0, -707, -1000, -707>>

\* tt.sin
Sin(a) == SinTable[(a % (2 * Pi)) + 1]

\* tt.cos
Cos(a) == Sin(a + (Pi \div 2))

\* tt.arctan2(y, x) for a point (x, y) of the unit circle: the angle of the
\* point in (-pi, pi].  The grid is exact: the angle Pi stands for the real
\* number pi, where arctan2(0, -1) is pi.  (In floating point the difference
\* -np.pi is the real number -pi + 1.2e-16, whose wrapped value, -np.pi, is
\* again inside the interval.)
ArcTan2(sn, cs) == CHOOSE a \in (1 - Pi)..Pi : Sin(a) = sn /\ Cos(a) = cs

-----------------------------------------------------------------------------
(* The data *)

\* the position angles of the data table: "in degrees in the range [0, 360]"
PAValues == {45 * k : k \in 0..8}

\* the position angle the orbit returns: "in the range [-pi, pi]"
ThetaRange == (-Pi)..Pi

SeqsUpTo(S, n) == UNION {[1..k -> S] : k \in 1..n}

\* a conversion that lowers the angles from pi on
ConvertPAFromPi(v) == IF Deg(v) >= Pi THEN Deg(v) - 2 * Pi ELSE Deg(v)

\* theta_data = PA * deg; theta_data[theta_data > np.pi] -= 2 * np.pi
ConvertPA(v) == IF Deg(v) > Pi THEN Deg(v) - 2 * Pi ELSE Deg(v)

-----------------------------------------------------------------------------
(* The uncertainties.  An entry of a masked column is its value and its    *)
(* mask; a "." of the file is read as 0 and masked.  Separations are in    *)
(* milliarcseconds; the position-angle uncertainties, which are about a    *)
(* degree, are in degrees in the table and in tenths of a degree once in   *)
(* radians.                                                                *)

\* one arcsecond, in milliarcseconds
ArcSec == 1000

\* np.pi, in tenths of a degree
PiTenths == 1800

Reported(v) == [value |-> v, mask |-> FALSE]

\* fill_values=[(".", "0")]
Missing == [value |-> 0, mask |-> TRUE]

\* the entries of the rho_err column: a reported 0.005 arcsec, or none
RhoErrEntries == {Reported(5), Missing}

\* the entries of the PA_err column: a reported 2 degrees, or none
PAErrEntries == {Reported(2), Missing}

Row(pa, re, pe) == [PA |-> pa, rho_err |-> re, PA_err |-> pe]

\* the rows of the table the model draws from: every position angle with
\* both uncertainties reported, and every pattern of missing uncertainties
TableRows ==
    {Row(pa, Reported(5), Reported(2)) : pa \in PAValues}
        \cup {Row(0, re, pe) : re \in RhoErrEntries, pe \in PAErrEntries}

\* the default of a missing separation uncertainty: 0.01 arcsec
rho_err_default == ArcSec \div 100

\* the default of a missing position-angle uncertainty: 1.0 degree
PA_err_default == 1

\* a column whose missing entries stay at the value they were read with
FillNothing(e, default) == Reported(e.value)

\* column[column.mask == True] = default
FillMasked(e, default) == IF e.mask THEN Reported(default) ELSE e

\* `x * deg' for an uncertainty in degrees
DegTenths(v) == (v * PiTenths) \div 180

\* get_model(parallax=[24.05, 0.45]), in hundredths of a milliarcsecond
GaiaParallax == <<2405, 45>>

\* the measured parallax, to the milliarcsecond
PlxOfGaia == GaiaParallax[1] \div 100

\* if parallax is None: plx = 1  # arcsec
PlxOfNone == 1 * ArcSec

\* m_plx: pm.Bound(pm.Normal, lower=0, upper=100), milliarcseconds
MPlxValues == {1, 24, 100}

\* plx = pm.Deterministic("plx", 1e-3 * m_plx)
PlxOfMeasured(mp) == (mp * ArcSec) \div 1000

-----------------------------------------------------------------------------
(* The orbits.  A constructor call is recorded by the place of the call    *)
(* and the keyword arguments it passes.                                    *)

Orbit(site, kw) == [site |-> site, kw |-> kw]

\* astrometric: the preliminary orbit from the literature
InitialOrbitCall ==
    Orbit("astrometric/initial",
          {"a", "t_periastron", "period", "incl", "ecc", "omega", "Omega"})

\* astrometric: the orbit of get_model
GetModelOrbitCall ==
    Orbit("astrometric/get_model",
          {"a", "t_periastron", "period", "incl", "ecc", "omega", "Omega"})

\* rv-multi: the orbit of the model
RvMultiOrbitCall ==
    Orbit("rv-multi/model", {"period", "t_periastron", "ecc", "omega"})

\* a transit orbit that is given a time of periastron as well
QuickTessOrbitCallBoth ==
    Orbit("quick-tess/model", {"period", "duration", "t0", "b", "t_periastron"})

\* quick-tess: the orbit of the model
QuickTessOrbitCall ==
    Orbit("quick-tess/model", {"period", "duration", "t0", "b"})

-----------------------------------------------------------------------------
(* The orientation of the astrometric orbit.  The literature values are    *)
(* given to a tenth of a degree, so these angles are counted in tenths of  *)
(* a degree: np.pi is PiTenths of them.                                    *)

\* 251.6 * deg: the argument of periastron Pourbaix reports, omega_2
omega_2 == 2516

\* 159.6 * deg: the ascending node Pourbaix reports
Omega_lit == 1596

\* a literature omega_2 handed to the orbit as it is
OmegaUnconverted == omega_2

\* omega = 251.6 * deg - np.pi  (the preliminary orbit)
omega_initial == omega_2 - PiTenths

\* omega0 = 251.6 * deg - np.pi  (get_model)
omega0 == omega_2 - PiTenths

\* Omega0 = 159.6 * deg  (get_model)
Omega0 == Omega_lit

\* p = pmx.Angle("p", testval=0.5 * (Omega0 + omega0)), at the test point
p_testval == (Omega0 + omega0) \div 2

\* half the difference taken the other way round
m_testval_swapped == (omega0 - Omega0) \div 2

\* m = pmx.Angle("m", testval=0.5 * (Omega0 - omega0)), at the test point
m_testval == (Omega0 - omega0) \div 2

\* omega = pm.Deterministic("omega", p - m), at the test point
omega_model == p_testval - m_testval

\* Omega = pm.Deterministic("Omega", p + m), at the test point
Omega_model == p_testval + m_testval

\* the parallax of a get_relative_angles call without one
NoParallax(p) == 0

\* the parallax argument of orbit.get_relative_angles(..., plx)
AnglesParallax(p) == p

\* the names get_model registers with pm.Deterministic
Deterministics(parallax_arg) ==
    {"a", "P", "omega", "Omega", "tperi", "incl", "rho_model", "theta_model",
     "rho_save", "theta_save"}
        \cup (IF parallax_arg # <<>> THEN {"plx", "M_tot"} ELSE {})

\* model.vars of get_model's model
AstrometricVars(parallax_arg) ==
    {"a_ang", "logP", "p", "m", "phase", "cos_incl", "ecc", "log_rho_s",
     "log_theta_s"}
        \cup (IF parallax_arg # <<>> THEN {"m_plx"} ELSE {})

-----------------------------------------------------------------------------
(* The eccentricity re-weighting of quick-tess.  An eccentricity is the    *)
(* fraction n/d; the arguments of periastron of this cell are the whole    *)
(* quarter turns, where the sine is -1, 0 or 1.  g holds a square root, so *)
(* g and the density are carried as their squares, which are fractions     *)
(* [num, den]; both are positive, so nothing is lost.                      *)

Frac(n, d) == [num |-> n, den |-> d]

FracEq(f, g) == f.num * g.den = g.num * f.den

\* np.random.uniform(0, 1, ...): values of [0, 1)
EccValues == {[n |-> 0, d |-> 1], [n |-> 1, d |-> 2], [n |-> 3, d |-> 4]}

\* np.random.uniform(-np.pi, np.pi, ...): values of [-pi, pi)
OmegaValues == {a \in (-Pi)..(Pi - 1) : a % (Pi \div 2) = 0}

\* trace.posterior["rho_circ"]
RhoCircValues == {1, 3}

\* np.sin at a whole quarter turn
SinQuarter(w) == Sin(w) \div 1000

\* g without the square root of its denominator
GSquaredNoRoot(e, w) ==
    Frac((e.d + e.n * SinQuarter(w)) ^ 2 * e.d ^ 2, (e.d ^ 2 - e.n ^ 2) ^ 2)

\* g = (1 + ecc * np.sin(omega)) / np.sqrt(1 - ecc**2), squared:
\* with ecc = n/d, g = (d + n sin(omega)) / sqrt(d^2 - n^2)
GSquared(e, w) ==
    Frac((e.d + e.n * SinQuarter(w)) ^ 2, e.d ^ 2 - e.n ^ 2)

\* rho = rho_circ / g**3, squared
RhoSquared(rc, e, w) ==
    Frac(rc ^ 2 * GSquared(e, w).den ^ 3, GSquared(e, w).num ^ 3)

-----------------------------------------------------------------------------
(* The likelihood of the position angles *)

\* a likelihood on the raw difference, without the wrapping
ThetaDiffRaw(model, data) == model - data

\* theta_diff = tt.arctan2(tt.sin(theta_model - theta_data),
\*                         tt.cos(theta_model - theta_data))
ThetaDiff(model, data) == ArcTan2(Sin(model - data), Cos(model - data))

\* the fourth panel of the "map orbit" figure:
\* theta_data - map_soln["theta_model"]
ThetaResidual(data, model) == data - model

-----------------------------------------------------------------------------
-----------------------------------------------------------------------------
(* The weights of the re-weighting cell.  Densities are in tenths here,    *)
(* rounded down; a log-weight is rounded to a whole number, and a weight   *)
(* is in thousandths.                                                      *)

\* tic_rho_star = float(star["rho"]), float(star["e_rho"])
TicRhoStarValues == {<<10, 5>>, <<300, 100>>}

\* the square root of n, rounded down
ISqrt(n) == CHOOSE r \in 0..1000 : r * r <= n /\ n < (r + 1) * (r + 1)

\* rho, from the square the model carries
RhoTenths(r2) == ISqrt((100 * r2.num) \div r2.den)

\* -0.5 * ((rho - tic_rho_star[0]) / tic_rho_star[1]) ** 2
LogWeight(r, tic) == -(((r - tic[1]) ^ 2) \div (2 * tic[2] ^ 2))

\* np.max(arr)
Max(arr) == CHOOSE m \in {arr[i] : i \in DOMAIN arr} : \A i \in DOMAIN arr : arr[i] <= m

\* e^0, e^-1, e^-2, ..., in thousandths
ExpTable == <<1000, 368, 135, 50, 18, 7, 2, 1>>

\* np.exp(d) for d <= 0, in thousandths; 0 where it is below a thousandth
Exp(d) == IF -d < Len(ExpTable) THEN ExpTable[1 - d] ELSE 0

\* weights that are not normalised
WeightsUnnormalised(lw) == [i \in DOMAIN lw |-> Exp(lw[i])]

\* weights = np.exp(log_weights - np.max(log_weights))
Weights(lw) == [i \in DOMAIN lw |-> Exp(lw[i] - Max(lw))]

-----------------------------------------------------------------------------
(* The search for the maximum a posteriori parameters.  A point is known   *)
(* by the stages it went through: the test point by none, the result of    *)
(* pmx.optimize(start, vars) by those of start and then vars.              *)

\* model.test_point
test_point == <<>>

\* an optimisation that starts over from the test point
OptimizeAfresh(from, vs) == <<vs>>

\* pmx.optimize(start, vars)
Optimize(from, vs) == Append(from, vs)

\* model.vars, the free variables pmx.optimize(start) optimises: rv-multi
RvMultiVars ==
    {"log_K", "log_P", "ecs", "phase", "log_sigma_gp", "log_rho_gp",
     "means", "sigmas"}

\* rv-multi: map_soln after the six stages of the model cell
RvMultiMapSoln ==
    LET s1 == Optimize(test_point, {"means"})
        s2 == Optimize(s1, {"means", "phase"})
        s3 == Optimize(s2, {"means", "phase", "log_K"})
        s4 == Optimize(s3, {"means", "tp", "K", "log_P", "ecs"})
        s5 == Optimize(s4, {"sigmas", "log_sigma_gp", "log_rho_gp"})
    IN  Optimize(s5, RvMultiVars)

-----------------------------------------------------------------------------
(* The radial velocities of rv-multi.  Times are whole days, velocities    *)
(* and their uncertainties whole m/s, dates the digits of year, month and  *)
(* day.                                                                    *)

\* "2015-07-01"
SplitDate == 20150701

AatRows ==
    {[JD |-> 1, Radial_Velocity |-> 5, Radial_Velocity_Uncertainty |-> 1],
     [JD |-> 2, Radial_Velocity |-> -3, Radial_Velocity_Uncertainty |-> 2]}

HarpsRows ==
    {[bjd |-> 1, rv |-> 7, e_rv |-> 3, date |-> 20150101],
     [bjd |-> 3, rv |-> 2, e_rv |-> 4, date |-> SplitDate],
     [bjd |-> 1, rv |-> -1, e_rv |-> 5, date |-> SplitDate + 1],
     [bjd |-> 3, rv |-> 4, e_rv |-> 6, date |-> 20160101]}

\* harps_post = np.array(harps.date > "2015-07-01", dtype=int)
HarpsPost(h) == [i \in DOMAIN h |-> IF h[i].date > SplitDate THEN 1 ELSE 0]

\* the combined data, before the sort:
\*   np.concatenate((aat[...], harps[...])), and for inst_id
\*   np.concatenate((np.zeros(len(aat), dtype=int), harps_post + 1))
Combined(a, h) ==
    [t |-> [i \in DOMAIN a |-> a[i].JD] \o [i \in DOMAIN h |-> h[i].bjd],
     rv |-> [i \in DOMAIN a |-> a[i].Radial_Velocity]
                \o [i \in DOMAIN h |-> h[i].rv],
     rv_err |-> [i \in DOMAIN a |-> a[i].Radial_Velocity_Uncertainty]
                    \o [i \in DOMAIN h |-> h[i].e_rv],
     inst_id |-> [i \in DOMAIN a |-> 0]
                     \o [i \in DOMAIN h |-> HarpsPost(h)[i] + 1]]

RECURSIVE Permutations(_)
\* the orders of the indices S
Permutations(S) ==
    IF S = {} THEN {<<>>}
    ELSE UNION {{<<e>> \o q : q \in Permutations(S \ {e})} : e \in S}

\* np.argsort(arr): an order of the indices that makes arr non-decreasing
\* (the order of equal entries is not fixed by the default sort)
ArgSort(arr) ==
    {inds \in Permutations(DOMAIN arr) :
        \A i \in 1..(Len(arr) - 1) : arr[inds[i]] <= arr[inds[i + 1]]}

\* an array left in the order it had
TakeNone(arr, inds) == arr

\* arr[inds]
Take(arr, inds) == [i \in DOMAIN inds |-> arr[inds[i]]]

\* the names of two instruments only
inst_names_two == <<"aat", "harps">>

inst_names == <<"aat", "harps_pre", "harps_post">>

\* the values of means and of sigmas in the model: one entry an instrument
MeansValues == {<<10, 20, 30>>, <<-5, 0, 5>>}
SigmasValues == {<<1, 2, 3>>, <<0, 0, 4>>}

\* (inst_id == i), as the number it multiplies with
IsInst(id, i) == IF id = i THEN 1 ELSE 0

RECURSIVE MeanLoop(_, _, _)
\* mean after the first n passes of
\*   for i in range(len(inst_names)): mean += means[i] * (inst_id == i)
\* (means[i] of the source is ms[i + 1])
MeanLoop(n, ms, ids) ==
    IF n = 0 THEN [j \in DOMAIN ids |-> 0]
    ELSE [j \in DOMAIN ids |->
             MeanLoop(n - 1, ms, ids)[j] + ms[n] * IsInst(ids[j], n - 1)]

RECURSIVE DiagLoop(_, _, _, _)
\* diag after the first n passes of
\*   diag += (rv_err**2 + sigmas[i] ** 2) * (inst_id == i)
DiagLoop(n, sg, err, ids) ==
    IF n = 0 THEN [j \in DOMAIN ids |-> 0]
    ELSE [j \in DOMAIN ids |->
             DiagLoop(n - 1, sg, err, ids)[j]
                 + (err[j] ^ 2 + sg[n] ^ 2) * IsInst(ids[j], n - 1)]

-----------------------------------------------------------------------------
(* The light curve of quick-tess.  Times are eighths of a day, fluxes      *)
(* thousandths of the mean flux, y and yerr parts per thousand.  Periods   *)
(* are an even number of eighths, so that half a period is one of the      *)
(* times of the model.                                                     *)

\* 0.25 days
QuarterDay == 2

\* the times of the samples the model draws from
TimeValues == {3, 4, 6, 13, 21, 40}

\* a sample of the light curve: lc.time.value, lc.flux, lc.flux_err
LcRow(v) == [time |-> v, flux |-> 1000 + ((3 * v) % 7) - 3, flux_err |-> 1 + (v % 2)]

\* the light curves of up to n samples, in the order of time
LightCurves(n) ==
    {s \in SeqsUpTo({LcRow(v) : v \in TimeValues}, n) :
        \A i \in 1..(Len(s) - 1) : s[i].time < s[i + 1].time}

\* peak["period"]: min_period=2, max_period=20 days
PeriodValues == {16, 18}

\* peak["transit_time"]
T0Values == {5, 30}

\* a fold without the shift by half a period
FoldUnshifted(v, t0, period) == ((v - t0) % period) - (period \div 2)

\* (x - t0_guess + 0.5 * period_guess) % period_guess - 0.5 * period_guess
Fold(v, t0, period) ==
    ((v - t0 + (period \div 2)) % period) - (period \div 2)

\* np.abs(...) < 0.25, sample by sample
TransitMask(xs, t0, period) ==
    [i \in DOMAIN xs |-> Abs(Fold(xs[i], t0, period)) < QuarterDay]

RECURSIVE Masked(_, _)
\* arr[mask]
Masked(arr, mask) ==
    IF arr = <<>> THEN <<>>
    ELSE IF Head(mask) THEN <<Head(arr)>> \o Masked(Tail(arr), Tail(mask))
    ELSE Masked(Tail(arr), Tail(mask))

\* model.vars of quick-tess
QuickTessVars ==
    {"mean", "u", "sigma", "log_sigma_gp", "log_rho_gp", "log_ror",
     "log_period", "t0", "log_dur", "b"}

\* quick-tess: map_soln after the five stages of the model cell
QuickTessMapSoln ==
    LET s1 == Optimize(test_point, {"sigma"})
        s2 == Optimize(s1, {"ror", "b", "dur"})
        s3 == Optimize(s2, {"sigma", "log_sigma_gp", "log_rho_gp"})
        s4 == Optimize(s3, {"mean", "u"})
    IN  Optimize(s4, QuickTessVars)

\* get_model: map_soln after the five stages
GetModelMapSoln(parallax_arg) ==
    LET s1 == Optimize(test_point, {"log_rho_s", "log_theta_s"})
        s2 == Optimize(s1, {"phase"})
        s3 == Optimize(s2, {"p", "m", "ecc"})
        s4 == Optimize(s3, {"logP", "a_ang", "phase"})
    IN  Optimize(s4, AstrometricVars(parallax_arg))

Notebooks == {"astrometric", "rv-multi", "quick-tess"}

-----------------------------------------------------------------------------
(* The Tutorials workflow.  A job is one step of the model: it ends in     *)
(* success when every step of it does, in failure otherwise.  The jobs of  *)
(* the matrix run at the same time, in any order.                          *)

\* jobs.notebooks.strategy.matrix.notebook-name
Matrix ==
    <<"lc-gp-transit", "lc-multi", "joint", "tess", "eb", "quick-tess",
      "stellar-variability", "ttv", "rv-multi", "astrometric", "transit", "rv">>

MainRef == "refs/heads/main"

\* on: the events that start a run, each with the refs it can have
Triggers ==
    {[event_name |-> "schedule", ref |-> MainRef],
     [event_name |-> "push", ref |-> MainRef],
     [event_name |-> "push", ref |-> "refs/tags/v1"],
     [event_name |-> "pull_request", ref |-> "refs/pull/1/merge"],
     [event_name |-> "workflow_dispatch", ref |-> MainRef],
     [event_name |-> "workflow_dispatch", ref |-> "refs/heads/dev"],
     [event_name |-> "workflow_dispatch", ref |-> "refs/tags/v1"]}

\* a job without needs
NeedsNothing == {}

\* jobs.combine.needs
CombineNeeds == {"notebooks"}

\* the conclusion of a job the run has: the matrix job `notebooks' succeeds
\* when every job of the matrix does
JobConclusion(job) ==
    IF job # "notebooks" THEN combine
    ELSE IF \E j \in DOMAIN notebooks : notebooks[j] = "failure" THEN "failure"
    ELSE IF \E j \in DOMAIN notebooks : notebooks[j] = "queued" THEN "pending"
    ELSE "success"

\* the steps of jobs.combine
CombineSteps ==
    <<"checkout", "Set up Python", "Install dependencies",
      "Download the executed notebooks",
      "Move the executed notebooks to their correct locations",
      "Build the docs", "upload-artifact", "Deploy">>

\* a Deploy step without a condition
DeployAlways(gh) == TRUE

\* if: ${{ github.ref == 'refs/heads/main' }}
DeployIf(gh) == gh.ref = MainRef

\* the condition of a step: its `if', and no earlier step of the job failed
StepRuns(name, gh, before) ==
    /\ \A k \in DOMAIN before : before[k] # "failure"
    /\ name = "Deploy" => DeployIf(gh)

\* the conclusion of a step of jobs.combine ("pending": not reached yet)
StepResult(name) ==
    LET k == CHOOSE i \in DOMAIN CombineSteps : CombineSteps[i] = name
    IN  IF k <= Len(steps) THEN steps[k] ELSE "pending"

\* the variables of a notebook before its first cell
Blank ==
    /\ pc = "start"
    /\ PA = <<>>
    /\ theta_data = <<>>
    /\ theta_model = <<>>
    /\ theta_diff = <<>>
    /\ orbits = <<>>
    /\ rho_circ = <<>>
    /\ ecc = <<>>
    /\ omega = <<>>
    /\ rho = <<>>
    /\ astro_data_full = <<>>
    /\ astro_err = <<>>
    /\ rho_err = <<>>
    /\ theta_err = <<>>
    /\ parallax = <<>>
    /\ plx = 0
    /\ Omega = 0
    /\ m_plx = 0
    /\ a_plx = 0
    /\ angles_plx = <<>>
    /\ deterministics = {}
    /\ map_soln = <<>>
    /\ plx_map_soln = <<>>
    /\ start = <<>>
    /\ aat = <<>>
    /\ harps = <<>>
    /\ t = <<>>
    /\ rv = <<>>
    /\ rv_err = <<>>
    /\ inst_id = <<>>
    /\ means = <<>>
    /\ sigmas = <<>>
    /\ mean = <<>>
    /\ diag = <<>>
    /\ lc = <<>>
    /\ x = <<>>
    /\ y = <<>>
    /\ yerr = <<>>
    /\ period_guess = 0
    /\ t0_guess = 0
    /\ transit_mask = <<>>
    /\ x_fold = <<>>
    /\ tic_rho_star = <<>>
    /\ log_weights = <<>>
    /\ weights = <<>>

\* the jobs of a run before any of them has run
Queued ==
    /\ notebooks = [j \in DOMAIN Matrix |-> "queued"]
    /\ combine = "waiting"
    /\ steps = <<>>

\* a job of the matrix about to execute its notebook
Init ==
    /\ nb \in Notebooks
    /\ Blank
    /\ github = [event_name |-> "push", ref |-> MainRef]
    /\ Queued

\* a run of the workflow about to start its jobs
WorkflowInit ==
    /\ nb = "none"
    /\ Blank
    /\ github \in Triggers
    /\ Queued

\* the variables of the notebooks, which the workflow's jobs do not share
nbVars ==
    <<nb, pc, PA, theta_data, theta_model, theta_diff, orbits, omega, tessVars,
      errVars, plxVars, nodeVars, mapVars, rvVars, lcVars, wVars>>

(* ---- the workflow ---- *)

\* a job of the matrix ends.  strategy.fail-fast is left at its default, so
\* a failure cancels the jobs of the matrix that have not ended
NotebookJob(j) ==
    /\ notebooks[j] = "queued"
    /\ \/ notebooks' = [notebooks EXCEPT ![j] = "success"]
       \/ notebooks' = [k \in DOMAIN notebooks |->
                            IF k = j THEN "failure"
                            ELSE IF notebooks[k] = "queued" THEN "cancelled"
                            ELSE notebooks[k]]
    /\ UNCHANGED <<github, combine, steps, nbVars>>

\* jobs.combine is started, or skipped, once the jobs it needs have ended
CombineStart ==
    /\ combine = "waiting"
    /\ \A job \in CombineNeeds : JobConclusion(job) # "pending"
    /\ combine' = IF \A job \in CombineNeeds : JobConclusion(job) = "success"
                     THEN "running" ELSE "skipped"
    /\ UNCHANGED <<github, notebooks, steps, nbVars>>

\* the next step of jobs.combine runs or is skipped
CombineStep ==
    /\ combine = "running"
    /\ Len(steps) < Len(CombineSteps)
    /\ IF StepRuns(CombineSteps[Len(steps) + 1], github, steps)
          THEN \E c \in {"success", "failure"} : steps' = Append(steps, c)
          ELSE steps' = Append(steps, "skipped")
    /\ UNCHANGED <<github, notebooks, combine, nbVars>>

\* jobs.combine ends
CombineEnd ==
    /\ combine = "running"
    /\ Len(steps) = Len(CombineSteps)
    /\ combine' = IF \E k \in DOMAIN steps : steps[k] = "failure"
                     THEN "failure" ELSE "success"
    /\ UNCHANGED <<github, notebooks, steps, nbVars>>

WorkflowNext ==
    \/ \E j \in DOMAIN Matrix : NotebookJob(j)
    \/ CombineStart
    \/ CombineStep
    \/ CombineEnd

Workflow == WorkflowInit /\ [][WorkflowNext]_vars

(* ---- astrometric ---- *)

\* the data cell: the table is read and the epochs with a separation and a
\* position angle are kept
LoadData ==
    /\ nb = "astrometric" /\ pc = "start"
    /\ \E rows \in SeqsUpTo(TableRows, MaxObs) :
          /\ astro_data_full' = rows
          /\ PA' = [i \in DOMAIN rows |-> rows[i].PA]
          /\ astro_err' = [i \in DOMAIN rows |->
                              [rho_err |-> rows[i].rho_err, PA_err |-> rows[i].PA_err]]
    /\ pc' = "convert"
    /\ UNCHANGED <<nb, theta_data, theta_model, theta_diff, orbits, tessVars, omega,
                   rho_err, theta_err, plxVars,
                   nodeVars, mapVars, rvVars, lcVars, wVars, wfVars>>

\* the error columns after
\*   astro_data["rho_err"][astro_data["rho_err"].mask == True] = 0.01
\*   astro_data["PA_err"][astro_data["PA_err"].mask == True] = 1.0
FilledErrors(col) ==
    [i \in DOMAIN col |->
        [rho_err |-> FillMasked(col[i].rho_err, rho_err_default),
         PA_err |-> FillMasked(col[i].PA_err, PA_err_default)]]

\* the cell that turns the table into arrays: the missing uncertainties are
\* given their defaults, the columns become arrays, the angles radians
ConvertData ==
    /\ nb = "astrometric" /\ pc = "convert"
    /\ astro_err' = FilledErrors(astro_err)
    /\ rho_err' = [i \in DOMAIN astro_err |-> FilledErrors(astro_err)[i].rho_err.value]
    /\ theta_data' = [i \in DOMAIN PA |-> ConvertPA(PA[i])]
    /\ theta_err' = [i \in DOMAIN astro_err |->
                        DegTenths(FilledErrors(astro_err)[i].PA_err.value)]
    /\ pc' = "initial_orbit"
    /\ UNCHANGED <<nb, PA, theta_model, theta_diff, orbits, tessVars, omega,
                   astro_data_full, plxVars,
                   nodeVars, mapVars, rvVars, lcVars, wVars, wfVars>>

\* the cell that draws the preliminary orbit
InitialOrbit ==
    /\ nb = "astrometric" /\ pc = "initial_orbit"
    /\ orbits' = Append(orbits, InitialOrbitCall)
    /\ omega' = omega_initial
    /\ Omega' = Omega_lit
    /\ pc' = "get_model"
    /\ UNCHANGED <<nb, PA, theta_data, theta_model, theta_diff, tessVars, errVars, plxVars,
                   m_plx, a_plx, angles_plx, deterministics,
                   mapVars, rvVars, lcVars, wVars, wfVars>>

\* get_model(parallax): the orbit (its omega at the test point, where the
\* search for the parameters starts), the model position angles at the epochs
\* and the wrapped difference the likelihood is built on
GetModelBody(parallax_arg) ==
    /\ parallax' = parallax_arg
    /\ IF parallax_arg = <<>>
          THEN m_plx' = 0 /\ plx' = PlxOfNone
          ELSE \E mp \in MPlxValues : m_plx' = mp /\ plx' = PlxOfMeasured(mp)
    /\ a_plx' = plx'
    /\ orbits' = Append(orbits, GetModelOrbitCall)
    /\ omega' = omega_model
    /\ Omega' = Omega_model
    /\ deterministics' = Deterministics(parallax_arg)
    /\ angles_plx' = [astro_jds |-> AnglesParallax(plx'), t_fine |-> AnglesParallax(plx')]
    /\ \E th \in [DOMAIN theta_data -> ThetaRange] :
          /\ theta_model' = th
          /\ theta_diff' = [i \in DOMAIN theta_data |->
                               ThetaDiff(th[i], theta_data[i])]
    /\ UNCHANGED <<nb, PA, theta_data, tessVars, errVars, start,
                   rvVars, lcVars, wVars, wfVars>>

\* model, map_soln = get_model()
GetModel ==
    /\ nb = "astrometric" /\ pc = "get_model"
    /\ GetModelBody(<<>>)
    /\ map_soln' = GetModelMapSoln(<<>>)
    /\ pc' = "plot_map"
    /\ UNCHANGED plx_map_soln

\* the residuals the fourth panel of the "map orbit" figure draws
PlotResiduals ==
    [i \in DOMAIN theta_model |-> ThetaResidual(theta_data[i], theta_model[i])]

\* the "map orbit" figure: the cell draws PlotResiduals and assigns none of
\* the notebook's arrays
PlotMap ==
    /\ nb = "astrometric" /\ pc = "plot_map"
    /\ pc' = "sample"
    /\ UNCHANGED <<nb, PA, theta_data, theta_model, theta_diff, orbits, tessVars, omega, errVars, plxVars,
                   nodeVars, mapVars, rvVars, lcVars, wVars, wfVars>>

\* the sampling cell: with model, pmx.sample(..., start=map_soln)
AstrometricSample ==
    /\ nb = "astrometric" /\ pc = "sample"
    /\ start' = map_soln
    /\ pc' = "get_model_plx"
    /\ UNCHANGED <<nb, PA, theta_data, theta_model, theta_diff, orbits, tessVars,
                   omega, errVars, plxVars, map_soln, plx_map_soln,
                   nodeVars, rvVars, lcVars, wVars, wfVars>>

\* plx_model, plx_map_soln = get_model(parallax=[24.05, 0.45])
GetModelPlx ==
    /\ nb = "astrometric" /\ pc = "get_model_plx"
    /\ GetModelBody(GaiaParallax)
    /\ plx_map_soln' = GetModelMapSoln(GaiaParallax)
    /\ pc' = "sample_plx"
    /\ UNCHANGED map_soln

\* the second sampling cell: with plx_model, pmx.sample(..., start=plx_map_soln)
AstrometricSamplePlx ==
    /\ nb = "astrometric" /\ pc = "sample_plx"
    /\ start' = plx_map_soln
    /\ pc' = "done"
    /\ UNCHANGED <<nb, PA, theta_data, theta_model, theta_diff, orbits, tessVars,
                   omega, errVars, plxVars, map_soln, plx_map_soln,
                   nodeVars, rvVars, lcVars, wVars, wfVars>>

(* ---- rv-multi ---- *)

\* the data cell: the two tables are read, joined and sorted by time
RvLoadData ==
    /\ nb = "rv-multi" /\ pc = "start"
    /\ \E a \in SeqsUpTo(AatRows, MaxRv), h \in SeqsUpTo(HarpsRows, MaxRv) :
          \E inds \in ArgSort(Combined(a, h).t) :
              /\ aat' = a
              /\ harps' = h
              /\ t' = Take(Combined(a, h).t, inds)
              /\ rv' = Take(Combined(a, h).rv, inds)
              /\ rv_err' = Take(Combined(a, h).rv_err, inds)
              /\ inst_id' = Take(Combined(a, h).inst_id, inds)
    /\ pc' = "model"
    /\ UNCHANGED <<nb, PA, theta_data, theta_model, theta_diff, orbits, tessVars,
                   omega, errVars, plxVars, means, sigmas, mean, diag,
                   nodeVars, mapVars, lcVars, wVars, wfVars>>

\* the model cell: the orbit, the offset and the jitter of each point, and
\* the search for the starting point of the sampling
RvMultiModel ==
    /\ nb = "rv-multi" /\ pc = "model"
    /\ orbits' = Append(orbits, RvMultiOrbitCall)
    /\ \E ms \in MeansValues, sg \in SigmasValues :
          /\ means' = ms
          /\ sigmas' = sg
          /\ mean' = MeanLoop(Len(inst_names), ms, inst_id)
          /\ diag' = DiagLoop(Len(inst_names), sg, rv_err, inst_id)
    /\ map_soln' = RvMultiMapSoln
    /\ pc' = "sample"
    /\ UNCHANGED <<nb, PA, theta_data, theta_model, theta_diff, tessVars, omega,
                   errVars, plxVars, aat, harps, t, rv, rv_err, inst_id,
                   plx_map_soln, start, nodeVars, lcVars, wVars, wfVars>>

\* the sampling cell: pmx.sample(..., start=map_soln)
RvMultiSample ==
    /\ nb = "rv-multi" /\ pc = "sample"
    /\ start' = map_soln
    /\ pc' = "done"
    /\ UNCHANGED <<nb, PA, theta_data, theta_model, theta_diff, orbits, tessVars,
                   omega, errVars, plxVars, map_soln, plx_map_soln,
                   nodeVars, rvVars, lcVars, wVars, wfVars>>

(* ---- quick-tess ---- *)

\* the data cell: the light curve is downloaded and turned into arrays
LoadLightCurve ==
    /\ nb = "quick-tess" /\ pc = "start"
    /\ \E s \in LightCurves(MaxLc) :
          /\ lc' = s
          /\ x' = [i \in DOMAIN s |-> s[i].time]
          /\ y' = [i \in DOMAIN s |-> s[i].flux - 1000]
          /\ yerr' = [i \in DOMAIN s |-> s[i].flux_err]
    /\ pc' = "bls"
    /\ UNCHANGED <<nb, PA, theta_data, theta_model, theta_diff, orbits, tessVars,
                   omega, errVars, plxVars, period_guess, t0_guess, transit_mask,
                   x_fold, nodeVars, mapVars, rvVars, wVars, wfVars>>

\* the box-least-squares cell: the period and the time of the transit
BoxLeastSquares ==
    /\ nb = "quick-tess" /\ pc = "bls"
    /\ period_guess' \in PeriodValues
    /\ t0_guess' \in T0Values
    /\ pc' = "mask"
    /\ UNCHANGED <<nb, PA, theta_data, theta_model, theta_diff, orbits, tessVars,
                   omega, errVars, plxVars, lc, x, y, yerr, transit_mask, x_fold,
                   nodeVars, mapVars, rvVars, wVars, wfVars>>

\* the cell that keeps the samples near a transit and folds their times
ExtractTransits ==
    /\ nb = "quick-tess" /\ pc = "mask"
    /\ transit_mask' = TransitMask(x, t0_guess, period_guess)
    /\ x' = Masked(x, transit_mask')
    /\ y' = Masked(y, transit_mask')
    /\ yerr' = Masked(yerr, transit_mask')
    /\ x_fold' = [i \in DOMAIN x' |-> Fold(x'[i], t0_guess, period_guess)]
    /\ pc' = "model"
    /\ UNCHANGED <<nb, PA, theta_data, theta_model, theta_diff, orbits, tessVars,
                   omega, errVars, plxVars, lc, period_guess, t0_guess,
                   nodeVars, mapVars, rvVars, wVars, wfVars>>

\* the model cell: the orbit and the search for the starting point
QuickTessModel ==
    /\ nb = "quick-tess" /\ pc = "model"
    /\ orbits' = Append(orbits, QuickTessOrbitCall)
    /\ map_soln' = QuickTessMapSoln
    /\ pc' = "sample"
    /\ UNCHANGED <<nb, PA, theta_data, theta_model, theta_diff, tessVars, omega,
                   errVars, plxVars, plx_map_soln, start,
                   nodeVars, rvVars, lcVars, wVars, wfVars>>

\* the sampling cell: pmx.sample(..., start=map_soln)
QuickTessSample ==
    /\ nb = "quick-tess" /\ pc = "sample"
    /\ start' = map_soln
    /\ pc' = "reweight"
    /\ UNCHANGED <<nb, PA, theta_data, theta_model, theta_diff, orbits, tessVars,
                   omega, errVars, plxVars, map_soln, plx_map_soln,
                   nodeVars, rvVars, lcVars, wVars, wfVars>>

\* the eccentricity cell: the implied densities of the fit, an eccentricity
\* and an argument of periastron drawn for each, and the true density each
\* triple implies
Reweight ==
    /\ nb = "quick-tess" /\ pc = "reweight"
    /\ \E n \in 1..MaxSamples :
          \E rc \in [1..n -> RhoCircValues], e \in [1..n -> EccValues],
             w \in [1..n -> OmegaValues] :
              /\ rho_circ' = rc
              /\ ecc' = e
              /\ omega' = w
              /\ rho' = [i \in 1..n |-> RhoSquared(rc[i], e[i], w[i])]
    /\ tic_rho_star' \in TicRhoStarValues
    /\ log_weights' = [i \in DOMAIN rho' |->
                           LogWeight(RhoTenths(rho'[i]), tic_rho_star')]
    /\ weights' = Weights(log_weights')
    /\ pc' = "done"
    /\ UNCHANGED <<nb, PA, theta_data, theta_model, theta_diff, orbits,
                   errVars, plxVars,
                   nodeVars, mapVars, rvVars, lcVars, wfVars>>

Next ==
    \/ LoadData
    \/ ConvertData
    \/ InitialOrbit
    \/ GetModel
    \/ PlotMap
    \/ AstrometricSample
    \/ GetModelPlx
    \/ AstrometricSamplePlx
    \/ RvLoadData
    \/ RvMultiModel
    \/ RvMultiSample
    \/ LoadLightCurve
    \/ BoxLeastSquares
    \/ ExtractTransits
    \/ QuickTessModel
    \/ QuickTessSample
    \/ Reweight

Spec == Init /\ [][Next]_vars

-----------------------------------------------------------------------------
(* Properties *)

\* the raw difference of the model and the observed position angle, epoch i
RawDiff(i) == theta_model[i] - theta_data[i]

\* C9: the mean of the position-angle likelihood is the wrapped difference
\* of the model and the observed angle: it lies in (-pi, pi], it differs
\* from the raw difference by a whole number of turns, and no other
\* representative of the raw difference is smaller in size, so two angles
\* that are close across the +-pi boundary give a small residual.
C9_WrappedResidual ==
    /\ DOMAIN theta_diff = DOMAIN theta_model
    /\ \A i \in DOMAIN theta_diff :
          /\ -Pi < theta_diff[i] /\ theta_diff[i] <= Pi
          /\ (theta_diff[i] - RawDiff(i)) % (2 * Pi) = 0
          /\ \A k \in -2..2 : Abs(theta_diff[i]) <= Abs(RawDiff(i) + 2 * Pi * k)

\* C9, its case: the likelihood was built for an epoch whose two angles lie
\* on either side of the +-pi boundary, one step apart
C9_Witness ==
    /\ pc \in {"plot_map", "done"}
    /\ \E i \in DOMAIN theta_diff :
          /\ Abs(RawDiff(i)) = 2 * Pi - 1
          /\ Abs(theta_diff[i]) = 1

PhasedByPeriastron(o) ==
    "t_periastron" \in o.kw /\ o.kw \cap {"duration", "t0", "b"} = {}

PhasedByTransit(o) ==
    {"duration", "t0", "b"} \subseteq o.kw /\ "t_periastron" \notin o.kw

\* C10: every orbit constructed is phased either by its time of periastron
\* alone or by the triple (duration, t0, b), never by both or by neither.
C10_OnePhaseParameterisation ==
    \A i \in DOMAIN orbits :
        PhasedByPeriastron(orbits[i]) # PhasedByTransit(orbits[i])

\* C10, its case: the transit notebook has constructed its orbit
C10_Witness ==
    /\ nb = "quick-tess" /\ pc = "sample"
    /\ \E i \in DOMAIN orbits : PhasedByTransit(orbits[i])

\* C15: the true density is rho_circ / g^3 with
\* g = (1 + e sin(omega)) / sqrt(1 - e^2), element by element: the result
\* has the length of the inputs; where e = 0 it is rho_circ itself for
\* every omega; where omega = pi/2 it is rho_circ ((1 - e)/(1 + e))^(3/2),
\* where omega = -pi/2 it is rho_circ ((1 + e)/(1 - e))^(3/2), and where
\* sin(omega) = 0 it is rho_circ (1 - e^2)^(3/2).  (Densities are compared
\* by their squares.)
C15_RhoStarCircularToTrue ==
    /\ DOMAIN rho = DOMAIN rho_circ
    /\ nb = "quick-tess" =>
          \A i \in DOMAIN rho :
            LET n == ecc[i].n
                d == ecc[i].d
                rc2 == rho_circ[i] ^ 2
            IN  /\ n = 0 => FracEq(rho[i], Frac(rc2, 1))
                /\ omega[i] = Pi \div 2 =>
                      FracEq(rho[i], Frac(rc2 * (d - n) ^ 3, (d + n) ^ 3))
                /\ omega[i] = -(Pi \div 2) =>
                      FracEq(rho[i], Frac(rc2 * (d + n) ^ 3, (d - n) ^ 3))
                /\ omega[i] \in {0, -Pi} =>
                      FracEq(rho[i], Frac(rc2 * (d ^ 2 - n ^ 2) ^ 3, d ^ 6))

\* C15, its case: the cell has run on two samples, a circular one at
\* omega = pi/2 and an eccentric one
C15_Witness ==
    /\ nb = "quick-tess" /\ pc = "done"
    /\ \E i, j \in DOMAIN rho :
          /\ ecc[i].n = 0 /\ omega[i] = Pi \div 2
          /\ ecc[j].n > 0 /\ omega[j] = -(Pi \div 2)
          /\ rho[j].num > rho_circ[j] ^ 2 * rho[j].den

\* C16: the argument of periastron of every orbit built from the literature
\* value is the primary's: it equals omega_2 + pi modulo a whole turn, in
\* the preliminary orbit and at the starting point of get_model's orbit.
C16_OmegaIsPrimary ==
    (nb = "astrometric"
        /\ pc \in {"get_model", "plot_map", "sample", "get_model_plx", "sample_plx", "done"})
        => (omega - (omega_2 + PiTenths)) % (2 * PiTenths) = 0

\* C16, its case: both astrometric orbits have been built, the second with
\* omega = 71.6 degrees
C16_Witness ==
    /\ nb = "astrometric" /\ pc = "plot_map"
    /\ Len(orbits) = 2
    /\ omega = 716

\* get_model has returned at least once
ModelBuilt ==
    nb = "astrometric"
        /\ pc \in {"plot_map", "sample", "get_model_plx", "sample_plx", "done"}

\* C13 as stated: a call without a parallax is rejected, so that a model
\* that was built was given its parallax, and none was put in its place.
C13_Original ==
    ModelBuilt => parallax # <<>>

\* C13, amended: get_model rejects no call.  Called without a parallax it
\* builds its orbit on the placeholder plx = 1 arcsec; called with
\* parallax = [mu, sd] it builds it on plx = 1e-3 m_plx, m_plx within
\* (0, 100] milliarcseconds.
C13_PlaceholderParallax ==
    /\ (nb = "astrometric" /\ pc \in {"plot_map", "sample", "get_model_plx"}) =>
          /\ parallax = <<>>
          /\ plx = ArcSec
          /\ Len(orbits) = 2
    /\ (nb = "astrometric" /\ pc \in {"sample_plx", "done"}) =>
          /\ parallax = GaiaParallax
          /\ 0 < plx /\ 10 * plx <= ArcSec
          /\ Len(orbits) = 3

\* C13, its case: get_model() has returned a model built without a parallax
C13_Witness ==
    /\ nb = "astrometric" /\ pc = "plot_map"
    /\ parallax = <<>> /\ plx = ArcSec
    /\ orbits[Len(orbits)].site = "astrometric/get_model"

\* the arrays hold the uncertainties of the table
ArraysBuilt ==
    nb = "astrometric" /\ pc \notin {"start", "convert"}

C28_PositionAngleRange ==
    ArraysBuilt =>
        /\ DOMAIN theta_data = DOMAIN PA
        /\ \A i \in DOMAIN PA :
              /\ -Pi < theta_data[i] /\ theta_data[i] <= Pi
              /\ (theta_data[i] - Deg(PA[i])) % (2 * Pi) = 0
              /\ PA[i] > 180 => theta_data[i] = Deg(PA[i]) - 2 * Pi
              /\ PA[i] <= 180 => theta_data[i] = Deg(PA[i])
              /\ PA[i] = 180 => theta_data[i] = Pi

\* C28, its case: a table with position angles of 180 and of 360 degrees
C28_Witness ==
    /\ ArraysBuilt
    /\ \E i, j \in DOMAIN PA :
          /\ PA[i] = 180 /\ theta_data[i] = Pi
          /\ PA[j] = 360 /\ theta_data[j] = 0

\* C27: get_model works with one parallax.  Without a measurement plx is
\* the constant 1 (arcsec) and no M_tot is registered; with [mu, sd] it is
\* 1e-3 m_plx, m_plx within [0, 100], and M_tot is registered.  The plx that
\* divides a_ang is the plx of both get_relative_angles calls.
C27_OneParallax ==
    ModelBuilt =>
        /\ a_plx = plx
        /\ angles_plx.astro_jds = plx
        /\ angles_plx.t_fine = plx
        /\ parallax = <<>> =>
              /\ plx = 1 * ArcSec /\ m_plx = 0
              /\ "M_tot" \notin deterministics
        /\ parallax # <<>> =>
              /\ 1000 * plx = m_plx * ArcSec
              /\ 0 <= m_plx /\ m_plx <= 100
              /\ "M_tot" \in deterministics

\* C27, its case: get_model was called with the Gaia parallax
C27_Witness ==
    /\ nb = "astrometric" /\ pc = "sample_plx"
    /\ parallax = GaiaParallax /\ m_plx = 24
    /\ angles_plx.t_fine = 24
    /\ "M_tot" \in deterministics

\* C30: with p = (Omega0 + omega0)/2 and m = (Omega0 - omega0)/2 the derived
\* omega = p - m and Omega = p + m are omega0 and Omega0 again: the model
\* starts at omega = 251.6 - 180 degrees and Omega = 159.6 degrees.
C30_RoundTrip ==
    ModelBuilt =>
        /\ omega = omega0 /\ Omega = Omega0
        /\ omega = 2516 - 1800 /\ Omega = 1596
        /\ 2 * p_testval = Omega0 + omega0
        /\ 2 * m_testval = Omega0 - omega0

\* C30, its case: get_model has built its model at the test point
C30_Witness ==
    /\ nb = "astrometric" /\ pc = "sample"
    /\ omega = 716 /\ Omega = 1596

(* ---- the search for the starting point ---- *)

\* C26: the search is a chain.  It starts at the test point, each
\* pmx.optimize starts from the result of the one before it, the last one
\* optimises all free variables, and pmx.sample starts from its result.
C26_MapChain ==
    /\ (nb = "rv-multi" /\ pc \in {"sample", "done"}) =>
          /\ Len(map_soln) = 6
          /\ map_soln[1] = {"means"}
          /\ map_soln[5] = {"sigmas", "log_sigma_gp", "log_rho_gp"}
          /\ map_soln[6] = RvMultiVars
    /\ (nb = "rv-multi" /\ pc = "done") => start = map_soln
    /\ (nb = "quick-tess" /\ pc \in {"sample", "reweight", "done"}) =>
          /\ Len(map_soln) = 5
          /\ map_soln[1] = {"sigma"}
          /\ map_soln[4] = {"mean", "u"}
          /\ map_soln[5] = QuickTessVars
    /\ (nb = "quick-tess" /\ pc \in {"reweight", "done"}) => start = map_soln
    /\ ModelBuilt =>
          /\ Len(map_soln) = 5
          /\ map_soln[1] = {"log_rho_s", "log_theta_s"}
          /\ map_soln[4] = {"logP", "a_ang", "phase"}
          /\ map_soln[5] = AstrometricVars(<<>>)
    /\ (nb = "astrometric" /\ pc = "get_model_plx") => start = map_soln
    /\ (nb = "astrometric" /\ pc \in {"sample_plx", "done"}) =>
          /\ Len(plx_map_soln) = 5
          /\ plx_map_soln[1] = {"log_rho_s", "log_theta_s"}
          /\ plx_map_soln[5] = AstrometricVars(GaiaParallax)
    /\ (nb = "astrometric" /\ pc = "done") => start = plx_map_soln

\* C26, its case: the second sampling of the astrometric notebook started
\* from the result of the second search
C26_Witness ==
    /\ nb = "astrometric" /\ pc = "done"
    /\ start = plx_map_soln /\ start # map_soln
    /\ Len(start) = 5

(* ---- quick-tess: the weights ---- *)

\* C29: the weights are normalised by their largest: every weight is within
\* [0, 1], and the samples of the largest log-weight, at least one, have the
\* weight 1.
C29_WeightsNormalised ==
    (nb = "quick-tess" /\ pc = "done") =>
        /\ DOMAIN weights = DOMAIN rho
        /\ DOMAIN log_weights = DOMAIN rho
        /\ \A i \in DOMAIN weights : 0 <= weights[i] /\ weights[i] <= 1000
        /\ \E i \in DOMAIN weights : weights[i] = 1000
        /\ \A i \in DOMAIN weights :
              (\A j \in DOMAIN weights : log_weights[j] <= log_weights[i])
                  => weights[i] = 1000

\* C29, its case: no sample has the log-weight 0, one has the weight 1 and
\* another a weight below it
C29_Witness ==
    /\ nb = "quick-tess" /\ pc = "done"
    /\ \A i \in DOMAIN log_weights : log_weights[i] < 0
    /\ \E i, j \in DOMAIN weights : weights[i] = 1000 /\ weights[j] < 1000

(* ---- quick-tess: the transit mask ---- *)

\* the transits the times of the model can be near: t0_guess + k period_guess
TransitNumbers == -4..4

\* a time less than 0.25 days from the nearest centre of a transit
NearTransit(v) ==
    \E k \in TransitNumbers : Abs(v - (t0_guess + k * period_guess)) < QuarterDay

\* the samples of the light curve that are near a transit
KeptSamples == SelectSeq(lc, LAMBDA r : NearTransit(r.time))

TransitsExtracted ==
    nb = "quick-tess" /\ pc \in {"model", "sample", "reweight", "done"}

\* C25: the mask keeps a sample exactly when its time is less than 0.25 days
\* from the nearest transit centre t0_guess + k period_guess; a folded time
\* lies in [-period/2, period/2); x, y and yerr are filtered by the one
\* mask, so they have one length and entry i of each is of one sample.
C25_TransitMask ==
    TransitsExtracted =>
        /\ Len(transit_mask) = Len(lc)
        /\ \A i \in DOMAIN lc :
              /\ transit_mask[i] <=> NearTransit(lc[i].time)
              /\ -(period_guess \div 2) <= Fold(lc[i].time, t0_guess, period_guess)
              /\ Fold(lc[i].time, t0_guess, period_guess) < period_guess \div 2
        /\ Len(x) = Len(KeptSamples)
        /\ Len(y) = Len(x) /\ Len(yerr) = Len(x) /\ Len(x_fold) = Len(x)
        /\ \A j \in DOMAIN x :
              /\ x[j] = KeptSamples[j].time
              /\ y[j] = KeptSamples[j].flux - 1000
              /\ yerr[j] = KeptSamples[j].flux_err
              /\ -(period_guess \div 2) <= x_fold[j]
              /\ x_fold[j] < period_guess \div 2
              /\ Abs(x_fold[j]) < QuarterDay
              /\ \E k \in TransitNumbers :
                    x[j] - (t0_guess + k * period_guess) = x_fold[j]

\* C25, its case: of two samples the mask dropped the first, half a period
\* from a transit, and kept the second, which is before the transit time
C25_Witness ==
    /\ TransitsExtracted
    /\ Len(lc) = 2 /\ Len(x) = 1
    /\ Fold(lc[1].time, t0_guess, period_guess) = -(period_guess \div 2)
    /\ ~transit_mask[1] /\ transit_mask[2]
    /\ x[1] < t0_guess

(* ---- rv-multi ---- *)

\* the number of entries of a sequence that equal u
Count(seq, u) == Cardinality({i \in DOMAIN seq : seq[i] = u})

\* the measurements of the combined data, one tuple a point
Measurements(tt, vv, ee, ii) ==
    [j \in DOMAIN tt |-> <<tt[j], vv[j], ee[j], ii[j]>>]

\* the measurements of the two tables, each with its instrument
TableMeasurements ==
    [j \in DOMAIN aat |->
        <<aat[j].JD, aat[j].Radial_Velocity, aat[j].Radial_Velocity_Uncertainty, 0>>]
    \o [j \in DOMAIN harps |->
        <<harps[j].bjd, harps[j].rv, harps[j].e_rv,
          IF harps[j].date > SplitDate THEN 2 ELSE 1>>]

RvLoaded == nb = "rv-multi" /\ pc # "start"

RvModelled == nb = "rv-multi" /\ pc \in {"sample", "done"}

\* C23: after the loop over the instruments every point has the offset and
\* the jitter of its own instrument, mean[j] = means[inst_id[j]] and
\* diag[j] = rv_err[j]^2 + sigmas[inst_id[j]]^2, and every inst_id is 0, 1
\* or 2 (0 for the AAT points, 2 for the HARPS points after the split).
C23_OneInstrumentPerPoint ==
    RvModelled =>
        /\ DOMAIN mean = DOMAIN t /\ DOMAIN diag = DOMAIN t
        /\ \A j \in DOMAIN t :
              /\ inst_id[j] \in {0, 1, 2}
              /\ mean[j] = means[inst_id[j] + 1]
              /\ diag[j] = rv_err[j] ^ 2 + sigmas[inst_id[j] + 1] ^ 2
        /\ Count(inst_id, 0) = Len(aat)
        /\ Count(inst_id, 2) = Count(HarpsPost(harps), 1)

\* C23, its case: a model over points of all three instruments
C23_Witness ==
    /\ RvModelled
    /\ \A i \in {0, 1, 2} : Count(inst_id, i) > 0
    /\ means = <<10, 20, 30>>
    /\ \E j \in DOMAIN t : inst_id[j] = 2 /\ mean[j] = 30

\* C24: after the sort t is non-decreasing and t, rv, rv_err and inst_id
\* went through the same permutation: the measurements are those of the
\* tables, each as often as there, each with its uncertainty and instrument.
C24_SortKeepsMeasurements ==
    RvLoaded =>
        /\ \A i \in 1..(Len(t) - 1) : t[i] <= t[i + 1]
        /\ Len(t) = Len(aat) + Len(harps)
        /\ Len(rv) = Len(t) /\ Len(rv_err) = Len(t) /\ Len(inst_id) = Len(t)
        /\ \A j \in DOMAIN TableMeasurements :
              Count(Measurements(t, rv, rv_err, inst_id), TableMeasurements[j])
                  = Count(TableMeasurements, TableMeasurements[j])

\* C24, its case: the sort moved a HARPS point before an AAT point, and two
\* points have the same time
C24_Witness ==
    /\ RvLoaded
    /\ \E i, j \in DOMAIN t : i < j /\ inst_id[i] > 0 /\ inst_id[j] = 0
    /\ \E i \in 1..(Len(t) - 1) : t[i] = t[i + 1]

(* ---- the workflow ---- *)

\* jobs.combine has started
CombineStarted == combine \in {"running", "success", "failure"}

\* C21: the job that builds the docs starts only once every job of the
\* matrix has ended in success; when the execution of a notebook fails, that
\* job is not started, so none of its steps (Build the docs, Deploy) runs.
C21_CombineNeedsNotebooks ==
    /\ CombineStarted => \A j \in DOMAIN notebooks : notebooks[j] = "success"
    /\ (\E j \in DOMAIN notebooks : notebooks[j] = "failure") =>
          /\ combine \in {"waiting", "skipped"}
          /\ steps = <<>>
          /\ StepResult("Build the docs") = "pending"
          /\ StepResult("Deploy") = "pending"

\* C21, its case: the twelve notebooks were executed and the docs built
C21_Witness ==
    /\ Len(Matrix) = 12
    /\ \A j \in DOMAIN notebooks : notebooks[j] = "success"
    /\ CombineStarted
    /\ StepResult("Build the docs") = "success"

\* C22: Deploy runs only in a run whose ref is refs/heads/main and after
\* Build the docs of the same job succeeded; in a run for any other ref the
\* step is skipped, also when the docs were built and uploaded.
C22_DeployOnlyFromMain ==
    /\ StepResult("Deploy") \in {"success", "failure"} =>
          /\ github.ref = MainRef
          /\ StepResult("Build the docs") = "success"
          /\ StepResult("upload-artifact") = "success"
    /\ (github.ref # MainRef /\ StepResult("Deploy") # "pending") =>
          StepResult("Deploy") = "skipped"
    /\ (github.ref # MainRef /\ combine = "success") =>
          /\ StepResult("Build the docs") = "success"
          /\ StepResult("upload-artifact") = "success"
          /\ StepResult("Deploy") = "skipped"

\* C22, its case: a run for a pull request built and uploaded the docs and
\* ended without deploying them
C22_Witness ==
    /\ github.event_name = "pull_request"
    /\ combine = "success"
    /\ StepResult("Build the docs") = "success"
    /\ StepResult("Deploy") = "skipped"

====
